---- MODULE Spec2Model ----
(***************************************************************************)
(* Eventify backend (src/index.js, src/middleware/auth.js, the mongoose    *)
(* schemas): the documents of the store, the auth middleware and the REST  *)
(* handlers that create venues and events, decide venue requests and       *)
(* append reviews.  One action per route; a handler runs to its response.  *)
(***************************************************************************)
EXTENDS Integers, Sequences, FiniteSets, TLC

\* ------------------------------------------------------------------ bounds
MaxUsers == 5      \* user documents
MaxVenues == 2     \* venue documents
MaxEvents == 1     \* event documents
MaxCapacity == 2   \* largest capacity of a venue
MaxPrice == 2      \* largest pricePerDay of a venue
MaxReviews == 2    \* reviews of one venue
MaxRating == 2     \* largest rating of a review
MaxTime == 1       \* last instant of the clock

\* ------------------------------------------------------------- value sets
Absent == "absent"                     \* a field the request does not carry
Roles == {"user", "organizer", "venue_owner"}
EventStatuses == {"pending", "approved", "rejected", "completed", "cancelled"}
RequestStatuses == {"pending", "approved", "rejected"}
Keys == {"jwtSecret", "otherKey"}      \* the key a token was signed with
jwtSecret == "jwtSecret"

\* Authorization headers: none, a non-Bearer scheme, "Bearer " with nothing
\* after it, or a bearer token (sub 0: the payload carries no userId).
Headers ==
  {[kind |-> k, key |-> "otherKey", sub |-> 0, exp |-> 0] :
      k \in {"none", "basic", "empty"}}
  \cup [kind : {"bearer"}, key : Keys, sub : 0..(MaxUsers + 1), exp : 0..(MaxTime + 1)]

VARIABLES
  users,    \* User collection: _id = index; [role, venues]
  venues,   \* Venue collection: _id = index
  events,   \* Event collection: _id = index
  now,      \* the clock (Date.now)
  last,     \* the latest request and its response: the route, req.user
            \* (0: none), the status code, the error, the ids listed
  inflight  \* the handlers suspended at an await between two writes or
            \* between a read and its write, in order of arrival

vars == <<users, venues, events, now, last, inflight>>

RespData(op, user, code, error, data) ==
  [op |-> op, user |-> user, code |-> code, error |-> error, data |-> data]

Resp(op, user, code, error) == RespData(op, user, code, error, {})

\* findById: a document exists iff its id is an index of the collection
UserExists(id) == id \in 1..Len(users)
VenueExists(id) == id \in 1..Len(venues)
EventExists(id) == id \in 1..Len(events)

Init ==
  /\ users = <<>>
  /\ venues = <<>>
  /\ events = <<>>
  /\ now = 0
  /\ last = Resp("boot", 0, 0, "")
  /\ inflight = <<>>

\* ------------------------------------------------ middleware/auth.js: auth
\* jwt.verify(token, jwtSecret): the signature is checked first, then exp.
jwtVerify(token) ==
  IF token.key # jwtSecret THEN [name |-> "JsonWebTokenError", userId |-> 0]
  ELSE IF now >= token.exp THEN [name |-> "TokenExpiredError", userId |-> 0]
  ELSE [name |-> "ok", userId |-> token.sub]

\* The catch block with its two tests in each other's place.
authCatchSwapped(name) ==
  IF name = "TokenExpiredError" THEN [ok |-> FALSE, code |-> 401, error |-> "Invalid token", user |-> 0]
  ELSE IF name = "JsonWebTokenError" THEN [ok |-> FALSE, code |-> 401, error |-> "Token expired", user |-> 0]
  ELSE [ok |-> FALSE, code |-> 500, error |-> "Authentication failed", user |-> 0]

\* The catch block of auth: the response for an error thrown by jwt.verify.
authCatch(name) ==
  IF name = "JsonWebTokenError" THEN [ok |-> FALSE, code |-> 401, error |-> "Invalid token", user |-> 0]
  ELSE IF name = "TokenExpiredError" THEN [ok |-> FALSE, code |-> 401, error |-> "Token expired", user |-> 0]
  ELSE [ok |-> FALSE, code |-> 500, error |-> "Authentication failed", user |-> 0]

\* auth: ok = next() was called with req.user = user.
auth(header) ==
  IF header.kind \in {"none", "basic"}
    THEN [ok |-> FALSE, code |-> 401, error |-> "Authentication required", user |-> 0]
  ELSE IF header.kind = "empty"
    THEN [ok |-> FALSE, code |-> 401, error |-> "Authentication required", user |-> 0]
  ELSE LET decoded == jwtVerify(header) IN
    IF decoded.name # "ok" THEN authCatch(decoded.name)
    ELSE IF decoded.userId = 0
      THEN [ok |-> FALSE, code |-> 401, error |-> "Invalid token", user |-> 0]
    ELSE IF ~UserExists(decoded.userId)
      THEN [ok |-> FALSE, code |-> 401, error |-> "User not found", user |-> 0]
    ELSE [ok |-> TRUE, code |-> 0, error |-> "", user |-> decoded.userId]

\* The gate as it would be if it tested that the role is a role at all.
checkRoleAny(roles, user) == users[user].role \in Roles

\* checkRole(roles): passes iff req.user.role is one of roles
checkRole(roles, user) == users[user].role \in roles

\* ------------------------------------------------------------ the clock
Tick ==
  /\ now < MaxTime
  /\ now' = now + 1
  /\ UNCHANGED <<users, venues, events, last, inflight>>

\* ------------------------------------------------------- POST /register
\* emailTaken: findOne({email}) finds a user (only when there is one).
\* A role outside the schema's enum fails the save.
Register(role, emailTaken) ==
  /\ UNCHANGED <<venues, events, now, inflight>>
  /\ IF emailTaken
       THEN /\ Len(users) > 0
            /\ last' = Resp("register", 0, 400, "User already exists")
            /\ UNCHANGED users
     ELSE IF role \notin Roles
       THEN /\ last' = Resp("register", 0, 500, "Registration failed")
            /\ UNCHANGED users
     ELSE /\ Len(users) < MaxUsers
          /\ users' = Append(users, [role |-> role, venues |-> <<>>])
          /\ last' = Resp("register", 0, 201, "")

\* --------------------------------------------------------- GET /profile
\* auth, then the handler: 200 with the profile of req.user.
getProfile(header) ==
  LET a == auth(header) IN
  IF ~a.ok THEN [code |-> a.code, error |-> a.error]
  ELSE [code |-> 200, error |-> ""]

GetProfile(header) ==
  /\ UNCHANGED <<users, venues, events, now, inflight>>
  /\ LET r == getProfile(header) IN
     last' = Resp("profile", auth(header).user, r.code, r.error)

\* -------------------------------------------------------- POST /venues
\* Request bodies: filled = name and address are present; capacity and
\* pricePerDay after Number() (0: "0", absent or not a number, all falsy).
VenueBodies ==
  [filled : BOOLEAN, capacity : 0..MaxCapacity, pricePerDay : 0..MaxPrice,
   availability : {Absent, "true", "false"}]

\* requiredFields.filter(field => !venueData[field])
venueMissingFields(body) ==
  (IF body.filled THEN <<>> ELSE <<"name", "address">>)
  \o (IF body.capacity = 0 THEN <<"capacity">> ELSE <<>>)
  \o (IF body.pricePerDay = 0 THEN <<"pricePerDay">> ELSE <<>>)

\* VenueModel.create(venueData): rating defaults to 0 (0/1), no reviews.
newVenue(owner, body) ==
  [owner |-> owner, capacity |-> body.capacity, pricePerDay |-> body.pricePerDay,
   availability |-> (body.availability = "true"),
   rating |-> [num |-> 0, den |-> 1], reviews |-> <<>>]

PostVenues(header, body) ==
  /\ UNCHANGED <<events, now, inflight>>
  /\ LET a == auth(header) IN
     IF ~a.ok
       THEN /\ last' = Resp("postVenues", a.user, a.code, a.error)
            /\ UNCHANGED <<users, venues>>
     ELSE IF users[a.user].role # "venue_owner"
       THEN /\ last' = Resp("postVenues", a.user, 403, "Only venue owners can create venues")
            /\ UNCHANGED <<users, venues>>
     ELSE IF Len(venueMissingFields(body)) > 0
       THEN /\ last' = Resp("postVenues", a.user, 400, "Missing required fields")
            /\ UNCHANGED <<users, venues>>
     ELSE /\ Len(venues) < MaxVenues
          /\ venues' = Append(venues, newVenue(a.user, body))
          /\ users' = [users EXCEPT ![a.user].venues = Append(@, Len(venues) + 1)]
          /\ last' = Resp("postVenues", a.user, 201, "")

\* ---------------------------------------------------------- GET /venues
\* The route has no auth middleware: req.user is never set.
NoUser == 0

\* VenueModel.find(query): the ids of the venues the response lists.
getVenues(reqUser) ==
  IF reqUser # NoUser /\ users[reqUser].role = "venue_owner"
    THEN {v \in 1..Len(venues) : venues[v].owner = reqUser}
    ELSE 1..Len(venues)

\* The handler as express runs it for a request with this header.
getVenuesRoute(header) == getVenues(NoUser)

GetVenues(header) ==
  /\ UNCHANGED <<users, venues, events, now, inflight>>
  /\ last' = RespData("getVenues", NoUser, 200, "", getVenuesRoute(header))

\* ------------------------------------------- PUT /venues/:id/availability
PutAvailability(header, id, availability) ==
  /\ UNCHANGED <<users, events, now, inflight>>
  /\ LET a == auth(header) IN
     IF ~a.ok
       THEN /\ last' = Resp("putAvailability", a.user, a.code, a.error)
            /\ UNCHANGED venues
     ELSE IF ~checkRole({"venue_owner"}, a.user)
       THEN /\ last' = Resp("putAvailability", a.user, 403, "Access denied")
            /\ UNCHANGED venues
     ELSE IF ~VenueExists(id)
       THEN /\ last' = Resp("putAvailability", a.user, 404, "Venue not found")
            /\ UNCHANGED venues
     ELSE IF venues[id].owner # a.user
       THEN /\ last' = Resp("putAvailability", a.user, 403, "Not authorized")
            /\ UNCHANGED venues
     ELSE /\ venues' = [venues EXCEPT ![id].availability = availability]
          /\ last' = Resp("putAvailability", a.user, 200, "")

\* ---------------------------------------------- models/Event.js: the schema
Responses == {"fine", "sorry"}         \* free-text responses of a venue owner
Unset == -1                            \* a Date field that was never set

\* Schema validation of save(): min 1, the enums.
validEvent(e) ==
  /\ e.expectedAttendees >= 1
  /\ e.status \in EventStatuses
  /\ e.venueRequest.status \in RequestStatuses

\* eventSchema.pre("save"): "" when next() is called with no error.
preSave(e) ==
  IF ~VenueExists(e.venue) THEN "Venue not found"
  ELSE IF ~venues[e.venue].availability THEN "Venue is not available"
  ELSE IF e.expectedAttendees > venues[e.venue].capacity THEN "Expected attendees exceed venue capacity"
  ELSE IF e.budget < venues[e.venue].pricePerDay * 1 THEN "Budget is insufficient for venue cost"
  ELSE ""

\* A save that runs the validators and no hook (as update queries do).
saveErrorValidatorsOnly(e) ==
  IF ~validEvent(e) THEN "ValidationError" ELSE ""

\* document.save(): the validators, then the pre-save hook.
saveError(e) ==
  IF ~validEvent(e) THEN "ValidationError" ELSE preSave(e)

\* ---------------------------------------------------------- POST /events
\* Request bodies: absent = the fields the body lacks (of the text fields and
\* price); venue 0 = no venue field; status / vrStatus = a status or
\* venueRequest.status the body carries (spread into eventData).
RequiredText == {"title", "description", "eventDate", "eventTime", "category"}
AbsentChoices == {{}, {"title", "category"}, {"price"}}
EventBodies ==
  [absent : AbsentChoices, venue : 0..(MaxVenues + 1),
   expectedAttendees : 0..(MaxCapacity + 1), budget : 0..(MaxPrice + 1),
   price : 0..1, status : {Absent, "approved", "bogus"},
   vrStatus : {Absent, "approved"}]

requiredFields ==
  <<"title", "description", "venue", "eventDate", "eventTime",
    "expectedAttendees", "budget", "category", "price">>

\* !eventData[field]: undefined, and for the three fields that went through
\* Number(), NaN (the field was absent) and 0.
falsy(body, field) ==
  IF field \in RequiredText THEN field \in body.absent
  ELSE IF field = "venue" THEN body.venue = 0
  ELSE IF field = "expectedAttendees" THEN body.expectedAttendees = 0
  ELSE IF field = "budget" THEN body.budget = 0
  ELSE "price" \in body.absent \/ body.price = 0

eventMissingFields(body) ==
  LET Missing(f) == falsy(body, f) IN SelectSeq(requiredFields, Missing)

\* missingFields.length > 0
anyMissing(body) == \E i \in 1..Len(requiredFields) : falsy(body, requiredFields[i])

\* The document EventModel.create builds: schema defaults unless eventData
\* carries the field.
newEvent(user, body) ==
  [organizer |-> user, venue |-> body.venue,
   expectedAttendees |-> body.expectedAttendees, budget |-> body.budget,
   status |-> IF body.status = Absent THEN "pending" ELSE body.status,
   venueRequest |->
     [status |-> IF body.vrStatus = Absent THEN "pending" ELSE body.vrStatus,
      response |-> Absent, respondedAt |-> Unset],
   reviews |-> <<>>]

\* The two checks as an off-by-one slip would write them.
capacityExceededLax(body, venue) == body.expectedAttendees > venue.capacity + 1
insufficientBudgetLax(body, venue) == body.budget < (venue.pricePerDay * 1) - 1

\* The route-level capacity and budget checks.
capacityExceeded(body, venue) == body.expectedAttendees > venue.capacity
insufficientBudget(body, venue) == body.budget < venue.pricePerDay * 1

\* The handler body, run with req.user = user: its response and the Event
\* collection it leaves.
postEvents(user, body) ==
  IF anyMissing(body)
    THEN [code |-> 400, error |-> "Missing required fields", events |-> events]
  ELSE IF ~VenueExists(body.venue)
    THEN [code |-> 404, error |-> "Venue not found", events |-> events]
  ELSE IF ~venues[body.venue].availability
    THEN [code |-> 400, error |-> "Venue not available", events |-> events]
  ELSE IF capacityExceeded(body, venues[body.venue])
    THEN [code |-> 400, error |-> "Capacity exceeded", events |-> events]
  ELSE IF insufficientBudget(body, venues[body.venue])
    THEN [code |-> 400, error |-> "Insufficient budget", events |-> events]
  ELSE IF saveError(newEvent(user, body)) # ""
    THEN [code |-> 500, error |-> "Failed to create event", events |-> events]
  ELSE [code |-> 201, error |-> "", events |-> Append(events, newEvent(user, body))]

\* auth, checkRole(["organizer"]), then the handler.
postEventsRoute(header, body) ==
  LET a == auth(header) IN
  IF ~a.ok THEN [code |-> a.code, error |-> a.error, events |-> events]
  ELSE IF ~checkRole({"organizer"}, a.user)
    THEN [code |-> 403, error |-> "Access denied", events |-> events]
  ELSE postEvents(a.user, body)

PostEvents(header, body) ==
  /\ UNCHANGED <<users, venues, now, inflight>>
  /\ LET r == postEventsRoute(header, body) IN
     /\ Len(r.events) <= MaxEvents
     /\ events' = r.events
     /\ last' = Resp("postEvents", auth(header).user, r.code, r.error)

\* ------------------------------------------ PATCH /vevent/:id/venue-request
Actions == {"approved", "rejected", "pending", "bogus"}   \* req.body.action

\* req.user.venues.includes(event.venue): a mongoose array compares ids by value
includes(list, id) == \E i \in 1..Len(list) : list[i] = id

\* The assignments of the handler to the loaded event document.
decide(e, action, response) ==
  [e EXCEPT !.venueRequest = [status |-> action, response |-> response,
                              respondedAt |-> now],
            !.status = IF action = "approved" THEN "approved" ELSE "rejected"]

\* The test without its ownership half.
mayDecideByRole(user, e) == users[user].role = "venue_owner"

\* The ownership test of the route on req.user (the user auth loaded).
mayDecide(user, e) ==
  users[user].role = "venue_owner" /\ includes(users[user].venues, e.venue)

\* auth, then the handler: its response and the Event collection it leaves.
patchVenueRequest(header, id, action, response) ==
  LET a == auth(header) IN
  IF ~a.ok THEN [code |-> a.code, error |-> a.error, events |-> events]
  ELSE IF ~EventExists(id)
    THEN [code |-> 404, error |-> "Event not found", events |-> events]
  ELSE IF ~mayDecide(a.user, events[id])
    THEN [code |-> 403, error |-> "Unauthorized", events |-> events]
  ELSE IF saveError(decide(events[id], action, response)) # ""
    THEN [code |-> 500, error |-> "Failed to process venue request", events |-> events]
  ELSE [code |-> 200, error |-> "",
        events |-> [events EXCEPT ![id] = decide(@, action, response)]]

PatchVenueRequest(header, id, action, response) ==
  /\ UNCHANGED <<users, venues, now, inflight>>
  /\ LET r == patchVenueRequest(header, id, action, response) IN
     /\ events' = r.events
     /\ last' = Resp("patchVenueRequest", auth(header).user, r.code, r.error)

\* ---------------------------------------------------- PUT /events/:id/status
\* A missing event makes event.venue throw: the catch answers 500.
putEventStatus(header, id, status) ==
  LET a == auth(header) IN
  IF ~a.ok THEN [code |-> a.code, error |-> a.error, events |-> events]
  ELSE IF ~checkRole({"venue_owner"}, a.user)
    THEN [code |-> 403, error |-> "Access denied", events |-> events]
  ELSE IF ~EventExists(id)
    THEN [code |-> 500, error |-> "Failed to update event status", events |-> events]
  ELSE IF venues[events[id].venue].owner # a.user
    THEN [code |-> 403, error |-> "Not authorized", events |-> events]
  ELSE IF saveError([events[id] EXCEPT !.status = status]) # ""
    THEN [code |-> 500, error |-> "Failed to update event status", events |-> events]
  ELSE [code |-> 200, error |-> "", events |-> [events EXCEPT ![id].status = status]]

PutEventStatus(header, id, status) ==
  /\ UNCHANGED <<users, venues, now, inflight>>
  /\ LET r == putEventStatus(header, id, status) IN
     /\ events' = r.events
     /\ last' = Resp("putEventStatus", auth(header).user, r.code, r.error)

\* --------------------------------------------------- POST /venues/:id/reviews
RECURSIVE gcd(_, _)
gcd(a, b) == IF b = 0 THEN a ELSE gcd(b, a % b)

\* a / b as the number it denotes: the fraction in lowest terms (b > 0)
divide(a, b) == [num |-> a \div gcd(a, b), den |-> b \div gcd(a, b)]

\* venue.reviews.reduce((sum, review) => sum + review.rating, 0)
RECURSIVE totalRating(_)
totalRating(reviews) ==
  IF reviews = <<>> THEN 0 ELSE Head(reviews) + totalRating(Tail(reviews))

\* A running average in place of the recomputation: (rating + new) / 2.
addReviewRunning(venue, rating) ==
  [venue EXCEPT !.reviews = Append(venue.reviews, rating),
                !.rating = divide(venue.rating.num + rating * venue.rating.den,
                                  2 * venue.rating.den)]

\* push the review, then recompute venue.rating over the whole list
addReview(venue, rating) ==
  LET pushed == Append(venue.reviews, rating) IN
  [venue EXCEPT !.reviews = pushed,
                !.rating = divide(totalRating(pushed), Len(pushed))]

\* Request bodies: given = the body carries a numeric rating.
ReviewBodies == [given : BOOLEAN, rating : 0..MaxRating]

\* No rating: the sum is NaN and the save fails on casting venue.rating.
\* A missing venue makes venue.reviews throw.
PostVenueReview(header, id, body) ==
  /\ UNCHANGED <<users, events, now, inflight>>
  /\ LET a == auth(header) IN
     IF ~a.ok
       THEN /\ last' = Resp("postVenueReview", a.user, a.code, a.error)
            /\ UNCHANGED venues
     ELSE IF ~VenueExists(id) \/ ~body.given
       THEN /\ last' = Resp("postVenueReview", a.user, 500, "Failed to add review")
            /\ UNCHANGED venues
     ELSE /\ Len(venues[id].reviews) < MaxReviews
          /\ venues' = [venues EXCEPT ![id] = addReview(@, body.rating)]
          /\ last' = RespData("postVenueReview", a.user, 200, "", {id})

\* ------------------------------------------------ handlers await by await
MaxInflight == 2      \* handlers suspended at the same time

\* The handlers in flight but for the one at position i.
without(seq, i) == SubSeq(seq, 1, i - 1) \o SubSeq(seq, i + 1, Len(seq))

\* The review handlers in flight on venue id.
pendingReviews(id) ==
  {i \in 1..Len(inflight) :
     inflight[i].op = "postVenueReview" /\ inflight[i].venue = id}

\* POST /venues/:id/reviews up to await venue.save(): the handler holds its
\* own copy of the document findById returned, with the review pushed on it
\* and the rating recomputed over the reviews of that copy.
reviewRead(user, id, body) ==
  [op |-> "postVenueReview", user |-> user, venue |-> id,
   review |-> body.rating, rating |-> addReview(venues[id], body.rating).rating]

\* venue.save(): mongoose sends the changes of the copy, a $push of the new
\* review and a $set of the rating, to the stored document.
reviewSave(h) ==
  [venues EXCEPT ![h.venue].reviews = Append(@, h.review),
                 ![h.venue].rating = h.rating]

ReviewRead(header, id, body) ==
  /\ UNCHANGED <<users, venues, events, now>>
  /\ LET a == auth(header) IN
     IF ~a.ok
       THEN /\ last' = Resp("postVenueReview", a.user, a.code, a.error)
            /\ UNCHANGED inflight
     ELSE IF ~VenueExists(id) \/ ~body.given
       THEN /\ last' = Resp("postVenueReview", a.user, 500, "Failed to add review")
            /\ UNCHANGED inflight
     ELSE /\ Len(inflight) < MaxInflight
          /\ Len(venues[id].reviews) + Cardinality(pendingReviews(id)) < MaxReviews
          /\ inflight' = Append(inflight, reviewRead(a.user, id, body))
          /\ UNCHANGED last

ReviewSave(i) ==
  /\ inflight[i].op = "postVenueReview"
  /\ venues' = reviewSave(inflight[i])
  /\ inflight' = without(inflight, i)
  /\ last' = RespData("postVenueReview", inflight[i].user, 200, "", {inflight[i].venue})
  /\ UNCHANGED <<users, events, now>>

\* POST /venues up to await UserModel.findByIdAndUpdate: the venue is stored,
\* the owner's list does not have it yet.
VenueCreate(header, body) ==
  /\ UNCHANGED <<users, events, now>>
  /\ LET a == auth(header) IN
     IF ~a.ok
       THEN /\ last' = Resp("postVenues", a.user, a.code, a.error)
            /\ UNCHANGED <<venues, inflight>>
     ELSE IF users[a.user].role # "venue_owner"
       THEN /\ last' = Resp("postVenues", a.user, 403, "Only venue owners can create venues")
            /\ UNCHANGED <<venues, inflight>>
     ELSE IF Len(venueMissingFields(body)) > 0
       THEN /\ last' = Resp("postVenues", a.user, 400, "Missing required fields")
            /\ UNCHANGED <<venues, inflight>>
     ELSE /\ Len(venues) < MaxVenues
          /\ Len(inflight) < MaxInflight
          /\ venues' = Append(venues, newVenue(a.user, body))
          /\ inflight' = Append(inflight, [op |-> "postVenues", user |-> a.user,
                                           venue |-> Len(venues) + 1])
          /\ UNCHANGED last

\* findByIdAndUpdate(req.user._id, {$push: {venues: venue._id}}), then 201.
VenuePush(i) ==
  /\ inflight[i].op = "postVenues"
  /\ users' = [users EXCEPT ![inflight[i].user].venues = Append(@, inflight[i].venue)]
  /\ inflight' = without(inflight, i)
  /\ last' = Resp("postVenues", inflight[i].user, 201, "")
  /\ UNCHANGED <<venues, events, now>>

\* --------------------------------------------------- POST /events/:id/reviews
\* A missing event makes event.reviews throw; the save runs the validators
\* and the pre-save hook of the Event schema.
postEventReview(header, id, body) ==
  LET a == auth(header) IN
  IF ~a.ok THEN [code |-> a.code, error |-> a.error, events |-> events]
  ELSE IF ~EventExists(id)
    THEN [code |-> 500, error |-> "Failed to add review", events |-> events]
  ELSE IF saveError([events[id] EXCEPT !.reviews = Append(@, body)]) # ""
    THEN [code |-> 500, error |-> "Failed to add review", events |-> events]
  ELSE [code |-> 200, error |-> "",
        events |-> [events EXCEPT ![id].reviews = Append(@, body)]]

PostEventReview(header, id, body) ==
  /\ UNCHANGED <<users, venues, now, inflight>>
  /\ LET r == postEventReview(header, id, body) IN
     /\ \A e \in 1..Len(r.events) : Len(r.events[e].reviews) <= MaxReviews
     /\ events' = r.events
     /\ last' = Resp("postEventReview", auth(header).user, r.code, r.error)

\* ------------------------------------------------------- specifications
\* The users of a deployment: organizers, venue owners, a visitor.
SeedRoles == <<"organizer", "venue_owner", "venue_owner", "organizer", "user">>
SeedUsers ==
  [u \in 1..MaxUsers |-> [role |-> SeedRoles[((u - 1) % 5) + 1], venues |-> <<>>]]

\* The store once the users have registered (Register, MaxUsers times).
Seeded ==
  /\ users = SeedUsers
  /\ venues = <<>>
  /\ events = <<>>
  /\ now = 0
  /\ last = Resp("register", 0, 201, "")
  /\ inflight = <<>>

\* The headers of the callers ids with a token jwt.sign issued them, and of
\* a caller with no Authorization header.
NoHeader == [kind |-> "none", key |-> "otherKey", sub |-> 0, exp |-> 0]
Token(u) == [kind |-> "bearer", key |-> jwtSecret, sub |-> u, exp |-> MaxTime + 1]
Callers(ids) == {NoHeader} \cup {Token(u) : u \in ids}

\* A request that stops in the middleware never has its body read: one
\* body stands for all of them.
AnyVenueBody ==
  [filled |-> FALSE, capacity |-> 0, pricePerDay |-> 0, availability |-> Absent]
AnyEventBody ==
  [absent |-> {}, venue |-> 0, expectedAttendees |-> 0, budget |-> 0,
   price |-> 0, status |-> Absent, vrStatus |-> Absent]

\* Venue bodies with a name and an address, event bodies with every text
\* field, a price and no status of their own.
FilledVenueBodies ==
  [filled : {TRUE}, capacity : 0..MaxCapacity, pricePerDay : 0..MaxPrice,
   availability : {"true", "false"}]
FilledEventBodies ==
  [absent : {{}}, venue : 0..(MaxVenues + 1),
   expectedAttendees : 0..(MaxCapacity + 1), budget : 0..(MaxPrice + 1),
   price : {1}, status : {Absent}, vrStatus : {Absent}]
\* Among them, where the amounts are not the point: a venue that is
\* available, an event that fits it.
PlainVenueBodies ==
  [filled : {TRUE}, capacity : {MaxCapacity}, pricePerDay : {1},
   availability : {"true"}]
PlainEventBodies ==
  [absent : {{}}, venue : 0..(MaxVenues + 1), expectedAttendees : {1},
   budget : {1}, price : {1}, status : {Absent}, vrStatus : {Absent}]

PlainReviewBodies == [given : {TRUE}, rating : {MaxRating}]

RegisterStep == \E role \in Roles \cup {"admin"}, taken \in BOOLEAN : Register(role, taken)
GetProfileStep == \E h \in Headers : GetProfile(h)
GetVenuesStep(headers) == \E h \in headers : GetVenues(h)
PostVenuesStep(headers, bodies) ==
  \E h \in headers :
    IF auth(h).ok /\ users[auth(h).user].role = "venue_owner"
      THEN \E b \in bodies : PostVenues(h, b)
      ELSE PostVenues(h, AnyVenueBody)
PutAvailabilityStep(headers) ==
  \E h \in headers :
    IF auth(h).ok /\ checkRole({"venue_owner"}, auth(h).user)
      THEN \E id \in 1..(MaxVenues + 1), av \in BOOLEAN : PutAvailability(h, id, av)
      ELSE PutAvailability(h, 1, TRUE)
PostEventsStep(headers, bodies) ==
  \E h \in headers :
    IF auth(h).ok /\ checkRole({"organizer"}, auth(h).user)
      THEN \E b \in bodies : PostEvents(h, b)
      ELSE PostEvents(h, AnyEventBody)
PatchVenueRequestStep(headers) ==
  \E h \in headers :
    IF auth(h).ok
      THEN \E id \in 1..(MaxEvents + 1), action \in Actions, r \in Responses :
             PatchVenueRequest(h, id, action, r)
      ELSE PatchVenueRequest(h, 1, "approved", "fine")
PutEventStatusStep(headers) ==
  \E h \in headers :
    IF auth(h).ok /\ checkRole({"venue_owner"}, auth(h).user)
      THEN \E id \in 1..(MaxEvents + 1), st \in EventStatuses \cup {"bogus"} :
             PutEventStatus(h, id, st)
      ELSE PutEventStatus(h, 1, "approved")
PostVenueReviewStep(headers) ==
  \E h \in headers :
    IF auth(h).ok
      THEN \E id \in 1..(MaxVenues + 1), b \in ReviewBodies : PostVenueReview(h, id, b)
      ELSE PostVenueReview(h, 1, [given |-> TRUE, rating |-> 0])
PostEventReviewStep(headers) ==
  \E h \in headers :
    IF auth(h).ok
      THEN \E id \in 1..(MaxEvents + 1), b \in ReviewBodies : PostEventReview(h, id, b)
      ELSE PostEventReview(h, 1, [given |-> TRUE, rating |-> 0])

PostEventReviewOf(headers, bodies) ==
  \E h \in headers :
    IF auth(h).ok
      THEN \E id \in 1..(MaxEvents + 1), b \in bodies : PostEventReview(h, id, b)
      ELSE PostEventReview(h, 1, [given |-> TRUE, rating |-> 0])
ReviewReadStep(headers) ==
  \E h \in headers :
    IF auth(h).ok
      THEN \E id \in 1..(MaxVenues + 1), b \in ReviewBodies : ReviewRead(h, id, b)
      ELSE ReviewRead(h, 1, [given |-> TRUE, rating |-> 0])
ReviewSaveStep == \E i \in 1..Len(inflight) : ReviewSave(i)
VenueCreateStep(headers, bodies) ==
  \E h \in headers :
    IF auth(h).ok /\ users[auth(h).user].role = "venue_owner"
      THEN \E b \in bodies : VenueCreate(h, b)
      ELSE VenueCreate(h, AnyVenueBody)
VenuePushStep == \E i \in 1..Len(inflight) : VenuePush(i)

\* Every route, every header, every body.
Next ==
  \/ Tick
  \/ RegisterStep
  \/ GetProfileStep
  \/ PostVenuesStep(Headers, VenueBodies)
  \/ GetVenuesStep(Headers)
  \/ PutAvailabilityStep(Headers)
  \/ PostEventsStep(Headers, EventBodies)
  \/ PatchVenueRequestStep(Headers)
  \/ PutEventStatusStep(Headers)
  \/ PostVenueReviewStep(Headers)
  \/ PostEventReviewStep(Headers)

Spec == Init /\ [][Next]_vars

\* The verifier alone, on a route it guards, while users register and time
\* passes.
NextAuth == Tick \/ RegisterStep \/ GetProfileStep
SpecAuth == Init /\ [][NextAuth]_vars

\* Venues and event creation by an organizer and a venue owner: the booking
\* rules.
NextBooking ==
  \/ PostVenuesStep(Callers(1..2), FilledVenueBodies)
  \/ PutAvailabilityStep(Callers(1..2))
  \/ PostEventsStep(Callers(1..2), FilledEventBodies)
SpecBooking == Seeded /\ [][NextBooking]_vars

\* Event creation under every header, while time passes.
NextGate ==
  \/ Tick
  \/ PostVenuesStep(Callers(2..2), PlainVenueBodies)
  \/ PostEventsStep(Headers, PlainEventBodies)
SpecGate == Seeded /\ [][NextGate]_vars

\* Venue requests and their decisions by two venue owners.
NextWorkflow ==
  \/ Tick
  \/ PostVenuesStep(Callers(2..3), PlainVenueBodies)
  \/ PostEventsStep(Callers(1..1), PlainEventBodies)
  \/ PatchVenueRequestStep(Callers(1..3))
SpecWorkflow == Seeded /\ [][NextWorkflow]_vars

\* Venues, their listing and their reviews, one request at a time.
NextReview ==
  \/ PostVenuesStep(Callers(2..3), PlainVenueBodies)
  \/ GetVenuesStep(Callers(2..3))
  \/ PostVenueReviewStep(Callers(1..2))
SpecReview == Seeded /\ [][NextReview]_vars

\* Reviews of a venue by callers whose requests overlap.
NextReviewRace ==
  \/ VenueCreateStep(Callers(2..2), PlainVenueBodies)
  \/ VenuePushStep
  \/ ReviewReadStep(Callers(1..2))
  \/ ReviewSaveStep
SpecReviewRace == Seeded /\ [][NextReviewRace]_vars

\* Venue owners creating venues while requests on them arrive.
NextOwnership ==
  \/ VenueCreateStep(Callers(2..3), PlainVenueBodies)
  \/ VenuePushStep
  \/ PostEventsStep(Callers(1..1), PlainEventBodies)
  \/ PatchVenueRequestStep(Callers(2..3))
  \/ PutAvailabilityStep(Callers(2..3))
SpecOwnership == Seeded /\ [][NextOwnership]_vars

\* Events booked into venues whose availability changes, then decided,
\* updated and reviewed.
NextEventWrites ==
  \/ PostVenuesStep(Callers(2..2), PlainVenueBodies)
  \/ PutAvailabilityStep(Callers(2..2))
  \/ PostEventsStep(Callers(1..1), PlainEventBodies)
  \/ PatchVenueRequestStep(Callers(2..2))
  \/ PutEventStatusStep(Callers(2..2))
  \/ PostEventReviewOf(Callers(1..1), PlainReviewBodies)
SpecEventWrites == Seeded /\ [][NextEventWrites]_vars

\* ------------------------------------------------- the booking validator
\* The callers whose requests pass auth and checkRole(["organizer"]): the
\* handler runs with req.user = u.
Organizers == {u \in 1..Len(users) : users[u].role = "organizer"}

\* The checks that come before the capacity check all pass.
ReachesCapacityCheck(b) ==
  /\ b.absent = {}
  /\ b.venue # 0 /\ b.expectedAttendees # 0 /\ b.budget # 0 /\ b.price # 0
  /\ VenueExists(b.venue)
  /\ venues[b.venue].availability

\* Every stored event fits its venue.
StoredWithinCapacity ==
  \A e \in 1..Len(events) :
    events[e].expectedAttendees <= venues[events[e].venue].capacity

\* Every stored event can pay its venue for one day.
StoredWithinBudget ==
  \A e \in 1..Len(events) :
    events[e].budget >= venues[events[e].venue].pricePerDay * 1

\* C1 as stated: every request that reaches the validator with
\* expectedAttendees above the capacity of its venue is answered 400
\* "Capacity exceeded" and creates nothing; no stored event exceeds the
\* capacity of its venue.
C1_AsStated ==
  /\ \A u \in Organizers, b \in EventBodies :
         (VenueExists(b.venue) /\ b.expectedAttendees > venues[b.venue].capacity)
           => LET r == postEvents(u, b) IN
              r.code = 400 /\ r.error = "Capacity exceeded" /\ r.events = events
  /\ StoredWithinCapacity

\* C1 amended: such a request is answered 400 and creates nothing; the
\* answer is "Capacity exceeded" when no required field is missing and the
\* venue is available (the earlier checks answer first otherwise); no stored
\* event exceeds the capacity of its venue.
C1_CapacityRejected ==
  /\ \A u \in Organizers, b \in EventBodies :
         (VenueExists(b.venue) /\ b.expectedAttendees > venues[b.venue].capacity)
           => LET r == postEvents(u, b) IN
              /\ r.code = 400
              /\ r.events = events
              /\ ReachesCapacityCheck(b) => r.error = "Capacity exceeded"
  /\ StoredWithinCapacity

\* An event is stored and the latest request was refused for its capacity.
C1_Witness ==
  /\ Len(events) > 0
  /\ last.op = "postEvents" /\ last.code = 400 /\ last.error = "Capacity exceeded"

\* C2 as stated: every request that reaches the validator with a budget
\* below the pricePerDay of its venue is answered 400 "Insufficient budget";
\* no stored event has a budget below pricePerDay x 1.
C2_AsStated ==
  /\ \A u \in Organizers, b \in EventBodies :
         (VenueExists(b.venue) /\ b.budget < venues[b.venue].pricePerDay)
           => LET r == postEvents(u, b) IN
              r.code = 400 /\ r.error = "Insufficient budget" /\ r.events = events
  /\ StoredWithinBudget

\* C2 amended: such a request is answered 400 and creates nothing; the
\* answer is "Insufficient budget" when no required field is missing (a
\* budget of 0 counts as missing), the venue is available and the attendees
\* fit; no stored event has a budget below pricePerDay x 1.
C2_BudgetRejected ==
  /\ \A u \in Organizers, b \in EventBodies :
         (VenueExists(b.venue) /\ b.budget < venues[b.venue].pricePerDay)
           => LET r == postEvents(u, b) IN
              /\ r.code = 400
              /\ r.events = events
              /\ (ReachesCapacityCheck(b)
                  /\ b.expectedAttendees <= venues[b.venue].capacity)
                 => r.error = "Insufficient budget"
  /\ StoredWithinBudget

\* An event is stored and the latest request was refused for its budget.
C2_Witness ==
  /\ Len(events) > 0
  /\ last.op = "postEvents" /\ last.code = 400 /\ last.error = "Insufficient budget"

\* C7 as stated: every event a successful POST /events creates is stored
\* with status pending and venueRequest.status pending, whatever the body
\* carries.
C7_AsStated ==
  \A u \in Organizers, b \in EventBodies :
    LET r == postEvents(u, b) IN
    r.code = 201 =>
      /\ r.events[Len(r.events)].status = "pending"
      /\ r.events[Len(r.events)].venueRequest.status = "pending"

\* ------------------------------------------------------ the verifier
\* The header carries a token signed with the secret, not expired, whose
\* userId names a stored user.
Verified(h) ==
  /\ h.kind = "bearer"
  /\ h.key = jwtSecret
  /\ now < h.exp
  /\ h.sub \in 1..Len(users)

\* C8: POST /events answers 401 to a header with no verified token and 403
\* to a verified caller who is no organizer, and creates nothing for either;
\* when it creates an event, the organizer of the event is the caller the
\* token names.
C8_OnlyOrganizersCreate ==
  \A h \in Headers, b \in EventBodies :
    LET r == postEventsRoute(h, b) IN
    /\ ~Verified(h) => (r.code = 401 /\ r.events = events)
    /\ (Verified(h) /\ users[h.sub].role # "organizer")
         => (r.code = 403 /\ r.events = events)
    /\ r.events # events
         => /\ Verified(h) /\ users[h.sub].role = "organizer"
            /\ Len(r.events) = Len(events) + 1
            /\ SubSeq(r.events, 1, Len(events)) = events
            /\ r.events[Len(r.events)].organizer = h.sub

\* The second organizer has created an event, after time has passed.
C8_Witness ==
  /\ now > 0
  /\ last.op = "postEvents" /\ last.code = 201 /\ last.user = 4
  /\ Len(events) > 0 /\ events[Len(events)].organizer = 4

\* C9: a bearer token not signed with the secret is answered 401 "Invalid
\* token", one signed with it whose expiry has passed 401 "Token expired";
\* neither sets req.user nor lets a handler behind auth run.
C9_BadTokensRejected ==
  \A h \in Headers :
    h.kind = "bearer" =>
      /\ h.key # jwtSecret =>
           /\ ~auth(h).ok /\ auth(h).user = 0
           /\ auth(h).code = 401 /\ auth(h).error = "Invalid token"
           /\ getProfile(h) = [code |-> 401, error |-> "Invalid token"]
      /\ (h.key = jwtSecret /\ h.exp <= now) =>
           /\ ~auth(h).ok /\ auth(h).user = 0
           /\ auth(h).code = 401 /\ auth(h).error = "Token expired"
           /\ getProfile(h) = [code |-> 401, error |-> "Token expired"]

\* Users have registered, time has passed and a token has just been
\* refused as expired.
C9_Witness ==
  /\ Len(users) > 0 /\ now > 0
  /\ last = Resp("profile", 0, 401, "Token expired")

\* -------------------------------------------------- the venue requests
\* The venues in the list of user u.
OwnedVenues(u) == {users[u].venues[i] : i \in 1..Len(users[u].venues)}

\* C3: a venue-request decision on a stored event by a verified venue owner
\* whose venue list lacks the venue of the event is answered 403 and leaves
\* the event as it was.
C3_NonOwnerForbidden ==
  \A h \in Headers, id \in 1..Len(events), action \in Actions, resp \in Responses :
    (Verified(h) /\ users[h.sub].role = "venue_owner"
       /\ events[id].venue \notin OwnedVenues(h.sub))
      => LET r == patchVenueRequest(h, id, action, resp) IN
         /\ r.code = 403
         /\ r.events[id].venueRequest = events[id].venueRequest
         /\ r.events[id].status = events[id].status
         /\ r.events = events

\* A venue owner who owns some venue, but not the venue of the event, has
\* just been refused the decision on it.
C3_Witness ==
  /\ last.op = "patchVenueRequest" /\ last.code = 403
  /\ last.user \in 1..Len(users) /\ users[last.user].role = "venue_owner"
  /\ Len(users[last.user].venues) > 0
  /\ Len(events) > 0
  /\ \A e \in 1..Len(events) : events[e].venue \notin OwnedVenues(last.user)

\* C4 as stated: venueRequest.status only ever goes from pending to
\* approved or to rejected; once approved or rejected it never changes.
C4_AsStated ==
  [][\A e \in 1..Len(events) :
       events'[e].venueRequest.status # events[e].venueRequest.status
         => /\ events[e].venueRequest.status = "pending"
            /\ events'[e].venueRequest.status \in {"approved", "rejected"}]_vars

\* C5 as stated: after every decision the route accepts,
\* venueRequest.status is approved or rejected, venueRequest.response is the
\* response supplied and Event.status equals venueRequest.status.
C5_AsStated ==
  \A h \in Headers, id \in 1..Len(events), action \in Actions, resp \in Responses :
    LET r == patchVenueRequest(h, id, action, resp) IN
    r.code = 200 =>
      /\ r.events[id].venueRequest.status \in {"approved", "rejected"}
      /\ r.events[id].venueRequest.response = resp
      /\ r.events[id].status = r.events[id].venueRequest.status

\* ------------------------------------------------------- the reviews
RECURSIVE SumOf(_)
SumOf(ratings) ==
  IF Len(ratings) = 0 THEN 0
  ELSE ratings[Len(ratings)] + SumOf(SubSeq(ratings, 1, Len(ratings) - 1))

\* C6: with reviews appended one request at a time, the rating of every
\* reviewed venue is the mean of the ratings in its list:
\* rating x number of reviews = sum of the ratings.
C6_RatingIsMean ==
  \A v \in 1..Len(venues) :
    Len(venues[v].reviews) > 0 =>
      venues[v].rating.num * Len(venues[v].reviews)
        = venues[v].rating.den * SumOf(venues[v].reviews)

\* A review has just been appended to a venue that now has several reviews
\* with different ratings.
C6_Witness ==
  /\ last.op = "postVenueReview" /\ last.code = 200
  /\ \E v \in last.data :
       /\ Len(venues[v].reviews) > 1
       /\ venues[v].reviews[1] # venues[v].reviews[Len(venues[v].reviews)]

\* ---------------------------------------------------------- GET /venues
\* C10 as stated: GET /venues lists to a caller verified as a venue owner
\* only the venues that caller owns, and every venue to any other caller.
C10_AsStated ==
  \A h \in Headers :
    IF Verified(h) /\ users[h.sub].role = "venue_owner"
      THEN \A v \in getVenuesRoute(h) : venues[v].owner = h.sub
      ELSE getVenuesRoute(h) = 1..Len(venues)

\* ------------------------------------------------ the required-field check
\* The required fields the payload does not carry.
AbsentFields(b) == b.absent \union (IF b.venue = 0 THEN {"venue"} ELSE {})

\* The fields the detail of the answer names.
NamedFields(b) ==
  LET m == eventMissingFields(b) IN {m[i] : i \in 1..Len(m)}

\* C11 as stated: POST /events is answered 400 "Missing required fields" if
\* and only if one of the nine required fields is absent from the payload,
\* and the detail names exactly the absent fields; a payload with all nine
\* present (a price of 0 included) is not rejected by this check.
C11_AsStated ==
  \A u \in Organizers, b \in EventBodies :
    LET r == postEvents(u, b) IN
    /\ (r.code = 400 /\ r.error = "Missing required fields") <=> (AbsentFields(b) # {})
    /\ AbsentFields(b) # {} => NamedFields(b) = AbsentFields(b)

\* ------------------------------------------------------ overlapping reviews
\* C12 as stated (its rating half): once every review request in flight has
\* completed, the rating of each reviewed venue is the mean of the ratings
\* of its review list.
C12_AsStated ==
  (\A i \in 1..Len(inflight) : inflight[i].op # "postVenueReview")
    => \A v \in 1..Len(venues) :
         Len(venues[v].reviews) > 0
           => venues[v].rating.num * Len(venues[v].reviews)
                = SumOf(venues[v].reviews) * venues[v].rating.den

\* ------------------------------------------------------ the ownership tests
\* C14 as stated: in every reachable state, for every venue v and user u,
\* v.owner = u if and only if v is in the owned-venue list of u.
C14_AsStated ==
  \A v \in 1..Len(venues), u \in 1..Len(users) :
    (venues[v].owner = u) <=> includes(users[u].venues, v)

\* ------------------------------------------------- writes of stored events
\* The booking checks on the current state of the venue of event e.
FitsVenue(e) ==
  /\ VenueExists(e.venue)
  /\ venues[e.venue].availability
  /\ e.expectedAttendees <= venues[e.venue].capacity
  /\ e.budget >= venues[e.venue].pricePerDay * 1

\* The creation requests that carry every required field (the others stop
\* at the required-field check).
CompleteEventBodies ==
  [absent : {{}}, venue : 1..(MaxVenues + 1),
   expectedAttendees : 1..(MaxCapacity + 1), budget : 1..(MaxPrice + 1),
   price : {1}, status : {Absent, "approved", "bogus"},
   vrStatus : {Absent, "approved"}]

\* The answers of a request that was stopped before its write.
Refusals == {401, 403, 404}

\* C13: every write of an Event document re-runs the booking checks on the
\* current state of its venue. A creation, a venue-request decision, a
\* status set or a review append that finds the checks failing changes no
\* stored event and, once the request is through authentication and
\* authorization, is answered 500 (400 by the route's own checks on a
\* creation); an accepted write means the checks passed.
C13_EveryWriteRechecks ==
  /\ \A u \in Organizers, b \in CompleteEventBodies :
       LET r == postEvents(u, b) IN
       /\ r.code = 201 => FitsVenue(newEvent(u, b))
       /\ r.events # events => FitsVenue(newEvent(u, b))
  /\ \A u \in 1..Len(users), id \in 1..Len(events) :
       ~FitsVenue(events[id]) =>
         /\ \A action \in Actions, response \in Responses :
              LET r == patchVenueRequest(Token(u), id, action, response) IN
              r.events = events /\ (r.code \notin Refusals => r.code = 500)
         /\ \A status \in EventStatuses \cup {"bogus"} :
              LET r == putEventStatus(Token(u), id, status) IN
              r.events = events /\ (r.code \notin Refusals => r.code = 500)
         /\ \A body \in ReviewBodies :
              LET r == postEventReview(Token(u), id, body) IN
              r.events = events /\ (r.code \notin Refusals => r.code = 500)

\* The owner of a venue that is no longer available has just had a write of
\* an event booked into it refused, and the event is as it was created.
C13_Witness ==
  /\ Len(events) > 0
  /\ ~venues[events[1].venue].availability
  /\ last.op \in {"patchVenueRequest", "putEventStatus"}
  /\ last.code = 500
  /\ last.user = venues[events[1].venue].owner
  /\ events[1].status = "pending" /\ events[1].venueRequest.status = "pending"

====
